---- MODULE Spec2Model ----
(***************************************************************************)
(* Model of the TP-Link Omada polling coordinators, the site controller    *)
(* that caches them and the device registry reconciliation.                *)
(***************************************************************************)
EXTENDS Integers, Sequences, FiniteSets, TLC

(* ---------------- bounds ---------------- *)
MaxPorts == 2
MaxSite == 2
MaxDevices == 2
MaxDevIds == 2
MaxClients == 2
MaxSubscribers == 2

(* ---------------- program constants ---------------- *)
LongFetchTimeout == 10 + 1

FetchTimeout == 10

POLL_SWITCH_PORT == 300
POLL_GATEWAY == 300
POLL_CLIENTS == 300
POLL_DEVICES == 900
DEFAULT_TRACKER_POLL_INTERVAL == 300

(* ---------------- universe of values ---------------- *)
Coords == {"c1", "c2", "devices", "clients", "gateway", "manual"}
Callers == {"u1", "u2", "timer"}
PortIds == {"p1", "p2"}
PortVals == {"a", "b"}
Ports == [port_id : PortIds, val : PortVals]
\* no answer is on its way: a list that is no vendor response
NoResponse == <<[port_id |-> "none", val |-> "none"]>>
None == "None"

RECURSIVE SeqsUpTo(_, _)
SeqsUpTo(S, n) ==
    IF n = 0 THEN {<<>>}
    ELSE LET shorter == SeqsUpTo(S, n - 1)
         IN shorter \cup {Append(s, x) : s \in {t \in shorter : Len(t) = n - 1}, x \in S}

Responses == SeqsUpTo(Ports, MaxPorts)

SetMax(S) == CHOOSE x \in S : \A y \in S : y <= x

VARIABLES
    data,        \* coordinator -> current snapshot (mapping key -> record)
    lastError,   \* coordinator -> None or the last captured failure
    fetching,    \* coordinator -> number of fetches in flight
    pending,     \* coordinator -> the answer the vendor API is sending
    elapsed,     \* coordinator -> time units since the fetch started
    waiting,     \* coordinator -> callers awaiting the in-flight result
    outcome,     \* coordinator -> how the vendor call of the last poll ended
    raised,      \* coordinator -> an exception escaped to the callers
    before       \* coordinator -> the snapshot when the last fetch was issued

coordVars == <<data, lastError, fetching, pending, elapsed, waiting, outcome, raised, before>>

(* ---------------- OmadaSwitchPortCoordinator.poll_update ---------------- *)
\* {p.port_id: p for p in ports}: a later port of the same id wins
poll_update(ports) ==
    [k \in {ports[i].port_id : i \in DOMAIN ports} |->
        ports[SetMax({i \in DOMAIN ports : ports[i].port_id = k})]]

(* ---------------- OmadaCoordinator._async_update_data ---------------- *)
\* ev is what the awaited vendor call did under asyncio.timeout(10)
Returned(v) == [kind |-> "return", value |-> v, exc |-> None]
Raised(e)   == [kind |-> "raise", value |-> <<>>, exc |-> e]

\* the new mapping is merged into the previous snapshot
MergeAsyncUpdateData(self, ev) ==
    IF ev.kind = "ok"
    THEN Returned([k \in DOMAIN self.data \cup DOMAIN poll_update(ev.ports) |->
                     IF k \in DOMAIN poll_update(ev.ports)
                     THEN poll_update(ev.ports)[k] ELSE self.data[k]])
    ELSE IF ev.kind = "OmadaClientException" THEN Raised("UpdateFailed")
    ELSE Raised(ev.kind)

\* the vendor error is swallowed and an empty mapping returned
SwallowAsyncUpdateData(self, ev) ==
    IF ev.kind = "ok" THEN Returned(poll_update(ev.ports))
    ELSE IF ev.kind = "OmadaClientException" THEN Returned(<<>>)
    ELSE Raised(ev.kind)

\* the vendor error is not wrapped as UpdateFailed
UnwrappedAsyncUpdateData(self, ev) ==
    IF ev.kind = "ok" THEN Returned(poll_update(ev.ports)) ELSE Raised(ev.kind)

async_update_data(self, ev) ==
    IF ev.kind = "ok" THEN Returned(poll_update(ev.ports))
    ELSE IF ev.kind = "OmadaClientException" THEN Raised("UpdateFailed")
    ELSE Raised(ev.kind)

Self(c) == [data |-> data[c]]

(* ---------------- DataUpdateCoordinator (host base class) ---------------- *)
\* the refresh ends: publish the snapshot or capture the failure
FinishRefresh(c, res, how) ==
    /\ data' = [data EXCEPT ![c] = IF res.kind = "return" THEN res.value ELSE @]
    /\ lastError' = [lastError EXCEPT ![c] =
            IF res.kind = "return" THEN None
            ELSE IF res.exc \in {"UpdateFailed", "TimeoutError"} THEN res.exc
            ELSE @]
    /\ raised' = [raised EXCEPT ![c] =
            @ \/ (res.kind = "raise" /\ res.exc \notin {"UpdateFailed", "TimeoutError"})]
    /\ outcome' = [outcome EXCEPT ![c] = how]
    /\ fetching' = [fetching EXCEPT ![c] = @ - 1]
    /\ pending' = [pending EXCEPT ![c] = NoResponse]
    /\ elapsed' = [elapsed EXCEPT ![c] = 0]
    /\ waiting' = [waiting EXCEPT ![c] = {}]
    /\ UNCHANGED before

\* every request issues its own fetch
EagerRefreshNow(c, caller, resps) ==
    /\ caller \notin waiting[c]
    /\ fetching' = [fetching EXCEPT ![c] = @ + 1]
    /\ \E r \in resps : pending' = [pending EXCEPT ![c] = r]
    /\ elapsed' = [elapsed EXCEPT ![c] = 0]
    /\ before' = [before EXCEPT ![c] = data[c]]
    /\ waiting' = [waiting EXCEPT ![c] = @ \cup {caller}]
    /\ UNCHANGED <<data, lastError, outcome, raised>>

\* refreshNow() or a scheduled tick (caller "timer")
RefreshNow(c, caller, resps) ==
    /\ caller \notin waiting[c]
    /\ IF fetching[c] = 0
       THEN /\ fetching' = [fetching EXCEPT ![c] = 1]
            /\ \E r \in resps : pending' = [pending EXCEPT ![c] = r]
            /\ elapsed' = [elapsed EXCEPT ![c] = 0]
            /\ before' = [before EXCEPT ![c] = data[c]]
       ELSE UNCHANGED <<fetching, pending, elapsed, before>>
    /\ waiting' = [waiting EXCEPT ![c] = @ \cup {caller}]
    /\ UNCHANGED <<data, lastError, outcome, raised>>

(* ---------------- the vendor API and the clock ---------------- *)
\* the snapshot is kept in one place shared by every coordinator
SharedVendorRespond(c) ==
    /\ fetching[c] > 0 /\ elapsed[c] < FetchTimeout
    /\ data' = [d \in Coords |-> poll_update(pending[c])]
    /\ lastError' = [lastError EXCEPT ![c] = None]
    /\ outcome' = [outcome EXCEPT ![c] = "ok"]
    /\ fetching' = [fetching EXCEPT ![c] = @ - 1]
    /\ pending' = [pending EXCEPT ![c] = NoResponse]
    /\ elapsed' = [elapsed EXCEPT ![c] = 0]
    /\ waiting' = [waiting EXCEPT ![c] = {}]
    /\ UNCHANGED <<raised, before>>

VendorRespond(c) ==
    /\ fetching[c] > 0 /\ elapsed[c] < FetchTimeout
    /\ FinishRefresh(c, async_update_data(Self(c), [kind |-> "ok", ports |-> pending[c]]), "ok")

\* the vendor error is answered by fetching again at once
RetryVendorError(c) ==
    /\ fetching[c] > 0 /\ elapsed[c] < FetchTimeout
    /\ lastError' = [lastError EXCEPT ![c] = "UpdateFailed"]
    /\ outcome' = [outcome EXCEPT ![c] = "vendor_error"]
    /\ \E r \in Responses : pending' = [pending EXCEPT ![c] = r]
    /\ elapsed' = [elapsed EXCEPT ![c] = 0]
    /\ UNCHANGED <<data, fetching, waiting, raised, before>>

VendorError(c) ==
    /\ fetching[c] > 0 /\ elapsed[c] < FetchTimeout
    /\ FinishRefresh(c, async_update_data(Self(c), [kind |-> "OmadaClientException", ports |-> <<>>]),
                     "vendor_error")

ClockTick(c) ==
    /\ fetching[c] > 0 /\ elapsed[c] < FetchTimeout
    /\ elapsed' = [elapsed EXCEPT ![c] = @ + 1]
    /\ UNCHANGED <<data, lastError, fetching, pending, waiting, outcome, raised, before>>

TimeoutExpire(c) ==
    /\ fetching[c] > 0 /\ elapsed[c] >= FetchTimeout
    /\ FinishRefresh(c, async_update_data(Self(c), [kind |-> "TimeoutError", ports |-> <<>>]),
                     "timeout")

(* ======================= OmadaSiteController ======================= *)
Tasks == {"t1", "t2"}
Macs == {"m1", "m2"}
SwitchNames == {"n1", "n2"}
Switches == [mac : Macs, name : SwitchNames]
SiteDevices == {[mac |-> "g1", type |-> "gateway"],
                [mac |-> "g2", type |-> "gateway"],
                [mac |-> "s1", type |-> "switch"]}
\* device lists the site can report: no device twice
Sites == {l \in SeqsUpTo(SiteDevices, MaxSite) :
            \A i, j \in DOMAIN l : i # j => l[i] # l[j]}

NoCoord == [id |-> 0, kind |-> "None", key |-> "None", name |-> "None"]
NotReturned == [id |-> 0, kind |-> "NotReturned", key |-> "None", name |-> "None"]
Exception(e) == [id |-> 0, kind |-> e, key |-> "None", name |-> "None"]
IsCoord(x) == x.id > 0

VARIABLES
    switch_port_coordinators,         \* dict mac -> OmadaSwitchPortCoordinator
    gateway_coordinator,              \* OmadaGatewayCoordinator or None
    initialized_gateway_coordinator,  \* the gateway lookup was started
    clients_coordinator,              \* OmadaClientsCoordinator or None
    nextId,                           \* identity of the next object constructed
    site,                             \* the device list the vendor API reports now
    gwpc,                             \* task -> position in get_gateway_coordinator
    gwret,                            \* task -> what its last call returned
    gwAt,                             \* task -> answer state of the lookup when its call began
    gwSaw,                            \* task -> the site had a gateway when its call began
    deviceFetches,                    \* get_devices() calls issued by the controller
    built,                            \* kind/key -> coordinators constructed
    switchRet,                        \* last return of get_switch_port_coordinator
    clientsRet,                       \* last return of get_clients_coordinator
    requested,                        \* switch macs ever asked for
    answered                          \* how the device-list lookup was answered

ctrlVars == <<switch_port_coordinators, gateway_coordinator, initialized_gateway_coordinator,
              clients_coordinator, nextId, site, gwpc, gwret, gwAt, gwSaw, deviceFetches, built,
              switchRet, clientsRet, requested, answered>>

BuildKeys == Macs \cup {"gateway", "clients"}
NewCoord(kind, key, name) == [id |-> nextId, kind |-> kind, key |-> key, name |-> name]
CountBuilt(k) == built' = [built EXCEPT ![k] = @ + 1]

\* positional arguments OmadaClientsCoordinator.__init__ takes after self
ClientsInitParams == 2
\* positional arguments get_clients_coordinator passes to it
ClientsCallArgs == 3

(* ---- get_switch_port_coordinator(switch) ---- *)
\* the coordinator is rebuilt on every call
RebuildGetSwitchPortCoordinator(switch) ==
    /\ switch_port_coordinators' =
            [m \in DOMAIN switch_port_coordinators \cup {switch.mac} |->
                IF m = switch.mac THEN NewCoord("switch_port", switch.mac, switch.name)
                ELSE switch_port_coordinators[m]]
    /\ nextId' = nextId + 1
    /\ CountBuilt(switch.mac)
    /\ switchRet' = [arg |-> switch, ret |-> NewCoord("switch_port", switch.mac, switch.name)]
    /\ requested' = requested \cup {switch.mac}
    /\ UNCHANGED <<gateway_coordinator, initialized_gateway_coordinator, clients_coordinator,
                   site, gwpc, gwret, gwAt, gwSaw, deviceFetches, clientsRet, answered>>

get_switch_port_coordinator(switch) ==
    /\ IF switch.mac \notin DOMAIN switch_port_coordinators
       THEN /\ switch_port_coordinators' =
                    [m \in DOMAIN switch_port_coordinators \cup {switch.mac} |->
                        IF m = switch.mac THEN NewCoord("switch_port", switch.mac, switch.name)
                        ELSE switch_port_coordinators[m]]
            /\ nextId' = nextId + 1
            /\ CountBuilt(switch.mac)
       ELSE UNCHANGED <<switch_port_coordinators, nextId, built>>
    /\ switchRet' = [arg |-> switch, ret |-> switch_port_coordinators'[switch.mac]]
    /\ requested' = requested \cup {switch.mac}
    /\ UNCHANGED <<gateway_coordinator, initialized_gateway_coordinator, clients_coordinator,
                   site, gwpc, gwret, gwAt, gwSaw, deviceFetches, clientsRet, answered>>

(* ---- get_gateway_coordinator() ---- *)
\* next((d for d in devices if d.type == "gateway"), None)
FirstGateway(devices) ==
    LET gs == {i \in DOMAIN devices : devices[i].type = "gateway"}
    IN IF gs = {} THEN [mac |-> "None", type |-> "None"]
       ELSE devices[CHOOSE i \in gs : \A j \in gs : i <= j]

\* the lookup is never marked as started
FlaglessGatewayCall(t) ==
    /\ gwpc[t] \in {"idle", "done"}
    /\ gwAt' = [gwAt EXCEPT ![t] = answered]
    /\ gwSaw' = [gwSaw EXCEPT ![t] = FirstGateway(site).type = "gateway"]
    /\ IF ~initialized_gateway_coordinator
       THEN /\ deviceFetches' = deviceFetches + 1
            /\ gwpc' = [gwpc EXCEPT ![t] = "awaiting"]
            /\ gwret' = [gwret EXCEPT ![t] = NotReturned]
       ELSE /\ gwpc' = [gwpc EXCEPT ![t] = "done"]
            /\ gwret' = [gwret EXCEPT ![t] = gateway_coordinator]
            /\ UNCHANGED deviceFetches
    /\ UNCHANGED <<switch_port_coordinators, gateway_coordinator, clients_coordinator, nextId,
                   site, built, switchRet, clientsRet, requested, answered,
                   initialized_gateway_coordinator>>

\* the call up to its await of get_devices(), or its immediate return
gateway_call(t) ==
    /\ gwpc[t] \in {"idle", "done"}
    /\ gwAt' = [gwAt EXCEPT ![t] = answered]
    /\ gwSaw' = [gwSaw EXCEPT ![t] = FirstGateway(site).type = "gateway"]
    /\ IF ~initialized_gateway_coordinator
       THEN /\ initialized_gateway_coordinator' = TRUE
            /\ deviceFetches' = deviceFetches + 1
            /\ gwpc' = [gwpc EXCEPT ![t] = "awaiting"]
            /\ gwret' = [gwret EXCEPT ![t] = NotReturned]
       ELSE /\ gwpc' = [gwpc EXCEPT ![t] = "done"]
            /\ gwret' = [gwret EXCEPT ![t] = gateway_coordinator]
            /\ UNCHANGED <<initialized_gateway_coordinator, deviceFetches>>
    /\ UNCHANGED <<switch_port_coordinators, gateway_coordinator, clients_coordinator, nextId,
                   site, built, switchRet, clientsRet, requested, answered>>

\* a lookup that finds no gateway is retried by the next call
RetryGatewayResume(t) ==
    /\ gwpc[t] = "awaiting"
    /\ LET gateway == FirstGateway(site)
       IN IF gateway.type = "None"
          THEN /\ gwret' = [gwret EXCEPT ![t] = NoCoord]
               /\ initialized_gateway_coordinator' = FALSE
               /\ UNCHANGED <<gateway_coordinator, nextId, built>>
          ELSE /\ gateway_coordinator' = NewCoord("gateway", gateway.mac, "Gateway")
               /\ nextId' = nextId + 1
               /\ CountBuilt("gateway")
               /\ gwret' = [gwret EXCEPT ![t] = gateway_coordinator']
               /\ UNCHANGED initialized_gateway_coordinator
    /\ gwpc' = [gwpc EXCEPT ![t] = "done"]
    /\ answered' = IF FirstGateway(site).type = "None" THEN "missing" ELSE "found"
    /\ UNCHANGED <<switch_port_coordinators, clients_coordinator,
                   site, gwAt, gwSaw, deviceFetches, switchRet, clientsRet, requested>>

\* get_devices() answers with the current device list
gateway_resume(t) ==
    /\ gwpc[t] = "awaiting"
    /\ LET gateway == FirstGateway(site)
       IN IF gateway.type = "None"
          THEN /\ gwret' = [gwret EXCEPT ![t] = NoCoord]
               /\ UNCHANGED <<gateway_coordinator, nextId, built>>
          ELSE /\ gateway_coordinator' = NewCoord("gateway", gateway.mac, "Gateway")
               /\ nextId' = nextId + 1
               /\ CountBuilt("gateway")
               /\ gwret' = [gwret EXCEPT ![t] = gateway_coordinator']
    /\ gwpc' = [gwpc EXCEPT ![t] = "done"]
    /\ answered' = IF FirstGateway(site).type = "None" THEN "missing" ELSE "found"
    /\ UNCHANGED <<switch_port_coordinators, initialized_gateway_coordinator, clients_coordinator,
                   site, gwAt, gwSaw, deviceFetches, switchRet, clientsRet, requested>>

\* get_devices() raises: the exception leaves the call
gateway_error(t) ==
    /\ gwpc[t] = "awaiting"
    /\ gwpc' = [gwpc EXCEPT ![t] = "done"]
    /\ gwret' = [gwret EXCEPT ![t] = Exception("OmadaClientException")]
    /\ answered' = "error"
    /\ UNCHANGED <<switch_port_coordinators, gateway_coordinator, initialized_gateway_coordinator,
                   clients_coordinator, nextId, site, gwAt, gwSaw, deviceFetches, built, switchRet,
                   clientsRet, requested>>

(* ---- get_clients_coordinator() ---- *)
get_clients_coordinator ==
    /\ IF ~IsCoord(clients_coordinator)
       THEN IF ClientsCallArgs = ClientsInitParams
            THEN /\ clients_coordinator' = NewCoord("clients", "clients", "ClientsList")
                 /\ nextId' = nextId + 1
                 /\ CountBuilt("clients")
                 /\ clientsRet' = clients_coordinator'
            ELSE \* TypeError: __init__() takes 3 positional arguments but 4 were given
                 /\ clientsRet' = Exception("TypeError")
                 /\ UNCHANGED <<clients_coordinator, nextId, built>>
       ELSE /\ clientsRet' = clients_coordinator
            /\ UNCHANGED <<clients_coordinator, nextId, built>>
    /\ UNCHANGED <<switch_port_coordinators, gateway_coordinator, initialized_gateway_coordinator,
                   site, gwpc, gwret, gwAt, gwSaw, deviceFetches, switchRet, requested, answered>>

(* ---- the site changes behind the controller ---- *)
SiteChange ==
    /\ \E l \in Sites : l # site /\ site' = l
    /\ UNCHANGED <<switch_port_coordinators, gateway_coordinator, initialized_gateway_coordinator,
                   clients_coordinator, nextId, gwpc, gwret, gwAt, gwSaw, deviceFetches, built,
                   switchRet, clientsRet, requested, answered>>

CtrlInit ==
    /\ switch_port_coordinators = <<>>
    /\ gateway_coordinator = NoCoord
    /\ initialized_gateway_coordinator = FALSE
    /\ clients_coordinator = NoCoord
    /\ nextId = 1
    /\ site = <<>>
    /\ gwpc = [t \in Tasks |-> "idle"]
    /\ gwret = [t \in Tasks |-> NotReturned]
    /\ gwAt = [t \in Tasks |-> "no"]
    /\ gwSaw = [t \in Tasks |-> FALSE]
    /\ deviceFetches = 0
    /\ built = [k \in BuildKeys |-> 0]
    /\ switchRet = [arg |-> [mac |-> "None", name |-> "None"], ret |-> NotReturned]
    /\ clientsRet = NotReturned
    /\ requested = {}
    /\ answered = "no"

(* ======================= OmadaClientsCoordinator ======================= *)
ClientMacs == {"k1", "k2", "k3"}
ClientTypes == {"wireless", "wired"}
Clients == [mac : ClientMacs, type : ClientTypes]
\* what get_connected_clients() can yield: every client once
ClientStreams == {l \in SeqsUpTo(Clients, MaxClients) :
                    \A i, j \in DOMAIN l : i # j => l[i].mac # l[j].mac}

VARIABLES
    stream,    \* the clients the vendor API yields in the poll in flight
    pos,       \* how many of them the async for has consumed
    partial    \* the dict the comprehension has built so far

clientVars == <<stream, pos, partial>>

\* every client is kept, whatever its transport
UnfilteredClientsStep(acc, c) ==
    [k \in DOMAIN acc \cup {c.mac} |-> IF k = c.mac THEN c ELSE acc[k]]

\* one round of {c.mac: c async for c in ... if isinstance(c, OmadaWirelessClient)}
clients_step(acc, c) ==
    IF c.type = "wireless"
    THEN [k \in DOMAIN acc \cup {c.mac} |-> IF k = c.mac THEN c ELSE acc[k]]
    ELSE acc

\* a refresh request; one that starts the fetch enters poll_update, which
\* opens the stream of connected clients
ClientsRefresh(caller) ==
    /\ RefreshNow("clients", caller, {<<>>})
    /\ IF fetching["clients"] = 0
       THEN /\ \E l \in ClientStreams : stream' = l
            /\ pos' = 0
            /\ partial' = <<>>
       ELSE UNCHANGED clientVars

\* the stream yields its next client
ClientsYield ==
    /\ fetching["clients"] > 0 /\ elapsed["clients"] < FetchTimeout
    /\ pos < Len(stream)
    /\ partial' = clients_step(partial, stream[pos + 1])
    /\ pos' = pos + 1
    /\ UNCHANGED <<stream, coordVars>>

\* the stream ends: poll_update returns the dict
ClientsEnd ==
    /\ fetching["clients"] > 0 /\ elapsed["clients"] < FetchTimeout
    /\ pos = Len(stream)
    /\ FinishRefresh("clients", Returned(partial), "ok")
    /\ UNCHANGED clientVars

\* the stream raises in the middle of the iteration
ClientsError ==
    /\ VendorError("clients")
    /\ UNCHANGED clientVars

ClientsInit ==
    /\ stream = <<>>
    /\ pos = 0
    /\ partial = <<>>

(* ======================= OmadaGatewayCoordinator ======================= *)
GatewayMacs == {"g1", "g2"}
\* what get_gateway(mac) can answer
Gateways == [mac : GatewayMacs, val : PortVals]

VARIABLES
    gw_mac     \* self.mac of the gateway coordinator, None before construction

gwVars == <<gw_mac>>

\* OmadaGatewayCoordinator.__init__(hass, omada_client, mac)
GatewayConstruct(mac) ==
    /\ gw_mac = None
    /\ gw_mac' = mac

\* the snapshot is keyed by the mac of the record fetched
RecordKeyedGatewayPollUpdate(self_mac, gateway) == [k \in {gateway.mac} |-> gateway]

\* return {self.mac: gateway}
gateway_poll_update(self_mac, gateway) == [k \in {self_mac} |-> gateway]

GatewayRefresh(caller) ==
    /\ gw_mac # None
    /\ RefreshNow("gateway", caller, {<<>>})
    /\ UNCHANGED gwVars

\* get_gateway(self.mac) answers
GatewayRespond(gateway) ==
    /\ fetching["gateway"] > 0 /\ elapsed["gateway"] < FetchTimeout
    /\ FinishRefresh("gateway", Returned(gateway_poll_update(gw_mac, gateway)), "ok")
    /\ UNCHANGED gwVars

GatewayInit == gw_mac = None

(* ======================= construction and scheduling ======================= *)
\* poll_delay=None, and the update_interval None it gives
NoDelay == 0
NoInterval == 0

\* the class of each coordinator of the model
Kind == [c \in Coords |->
            CASE c \in {"c1", "c2"} -> "OmadaSwitchPortCoordinator"
              [] c = "gateway" -> "OmadaGatewayCoordinator"
              [] c = "devices" -> "OmadaDevicesCoordinator"
              [] c = "clients" -> "OmadaClientsCoordinator"
              [] OTHER -> "OmadaCoordinator"]

\* the poll_delay each subclass passes to OmadaCoordinator.__init__; the plain
\* OmadaCoordinator of the model is built with poll_delay=None
PollDelayArg(kind) ==
    CASE kind = "OmadaSwitchPortCoordinator" -> POLL_SWITCH_PORT
      [] kind = "OmadaGatewayCoordinator" -> POLL_GATEWAY
      [] kind = "OmadaDevicesCoordinator" -> POLL_CLIENTS
      [] kind = "OmadaClientsCoordinator" -> POLL_CLIENTS
      [] OTHER -> NoDelay

\* a coordinator built without a poll delay polls every 300 all the same
DefaultedCoordinatorInit(poll_delay) ==
    IF poll_delay # 0 THEN poll_delay ELSE 300

\* update_interval=timedelta(seconds=poll_delay) if poll_delay else None
coordinator_init(poll_delay) ==
    IF poll_delay # 0 THEN poll_delay ELSE NoInterval

SchedResponses == {<<>>, <<[port_id |-> "p1", val |-> "a"]>>}

VARIABLES
    update_interval,  \* coordinator -> seconds between polls, NoInterval for None
    subscribers,      \* coordinator -> listeners attached
    sinceTick,        \* coordinator -> time units since its last scheduled tick
    tornDown          \* coordinator -> it was shut down

schedVars == <<update_interval, subscribers, sinceTick, tornDown>>

Scheduled(c) == subscribers[c] > 0 /\ update_interval[c] # NoInterval /\ ~tornDown[c]

\* a listener attaches; the first one starts the schedule with an immediate tick
Subscribe(c) ==
    /\ ~tornDown[c] /\ subscribers[c] < MaxSubscribers
    /\ subscribers' = [subscribers EXCEPT ![c] = @ + 1]
    /\ IF subscribers[c] = 0 /\ update_interval[c] # NoInterval
       THEN /\ sinceTick' = [sinceTick EXCEPT ![c] = 0]
            /\ IF "timer" \in waiting[c] THEN UNCHANGED coordVars
               ELSE RefreshNow(c, "timer", SchedResponses)
       ELSE UNCHANGED <<sinceTick, coordVars>>
    /\ UNCHANGED <<update_interval, tornDown>>

\* one time unit passes for the coordinator's timer and for its fetch in flight
TimePasses(c) ==
    /\ ~tornDown[c]
    /\ Scheduled(c) \/ fetching[c] > 0
    /\ Scheduled(c) => sinceTick[c] < update_interval[c]
    /\ fetching[c] > 0 => elapsed[c] < FetchTimeout
    /\ sinceTick' = [sinceTick EXCEPT ![c] = IF Scheduled(c) THEN @ + 1 ELSE @]
    /\ elapsed' = [elapsed EXCEPT ![c] = IF fetching[c] > 0 THEN @ + 1 ELSE @]
    /\ UNCHANGED <<data, lastError, fetching, pending, waiting, outcome, raised, before,
                   update_interval, subscribers, tornDown>>

\* the interval is over: the scheduled tick requests a refresh
ScheduledTick(c) ==
    /\ Scheduled(c) /\ sinceTick[c] >= update_interval[c]
    /\ sinceTick' = [sinceTick EXCEPT ![c] = 0]
    /\ IF "timer" \in waiting[c] THEN UNCHANGED coordVars
       ELSE RefreshNow(c, "timer", SchedResponses)
    /\ UNCHANGED <<update_interval, subscribers, tornDown>>

\* an explicit refreshNow()
UserRefresh(c) ==
    /\ ~tornDown[c]
    /\ RefreshNow(c, "u1", SchedResponses)
    /\ UNCHANGED schedVars

\* the fetch of a live coordinator ends
LiveRespond(c) == ~tornDown[c] /\ VendorRespond(c) /\ UNCHANGED schedVars
LiveError(c) == ~tornDown[c] /\ VendorError(c) /\ UNCHANGED schedVars
LiveTimeout(c) == ~tornDown[c] /\ TimeoutExpire(c) /\ UNCHANGED schedVars

\* the coordinator is torn down: its scheduled task is cancelled
Teardown(c) ==
    /\ ~tornDown[c]
    /\ tornDown' = [tornDown EXCEPT ![c] = TRUE]
    /\ UNCHANGED <<update_interval, subscribers, sinceTick, coordVars>>

\* the result of the fetch in flight at teardown is published all the same
PublishAfterTeardown(c) ==
    /\ tornDown[c]
    /\ VendorRespond(c)
    /\ UNCHANGED schedVars

\* the fetch in flight at teardown completes or times out: its result is dropped
DiscardResult(c) ==
    /\ tornDown[c] /\ fetching[c] > 0
    /\ fetching' = [fetching EXCEPT ![c] = 0]
    /\ pending' = [pending EXCEPT ![c] = NoResponse]
    /\ elapsed' = [elapsed EXCEPT ![c] = 0]
    /\ waiting' = [waiting EXCEPT ![c] = {}]
    /\ outcome' = [outcome EXCEPT ![c] = "discarded"]
    /\ UNCHANGED <<data, lastError, raised, before, schedVars>>

SchedInit ==
    /\ update_interval = [c \in Coords |-> coordinator_init(PollDelayArg(Kind[c]))]
    /\ subscribers = [c \in Coords |-> 0]
    /\ sinceTick = [c \in Coords |-> 0]
    /\ tornDown = [c \in Coords |-> FALSE]

(* ======================= OmadaIntegrationOptions ======================= *)
FieldNames == {"device_tracker", "tracked_clients", "scanned_clients", "tracker_poll_interval"}
OptionKeys == FieldNames \cup {"site"}
ClientLists == {<<>>, <<"aa">>}
PollIntervals == {DEFAULT_TRACKER_POLL_INTERVAL, 60}

\* Python objects that are compared with ==: a str and a dataclasses.Field
PyStr(x) == [py |-> "str", v |-> x]
PyField(n) == [py |-> "Field", v |-> n]

\* dataclasses.fields(OmadaIntegrationOptions): a tuple of Field objects
dataclass_fields == {PyField(n) : n \in FieldNames}

\* the defaults the dataclass declares, and whether each is a list literal
FieldDefaults == [device_tracker |-> FALSE, tracked_clients |-> <<>>, scanned_clients |-> <<>>,
                  tracker_poll_interval |-> DEFAULT_TRACKER_POLL_INTERVAL]
ListDefault == [device_tracker |-> FALSE, tracked_clients |-> TRUE, scanned_clients |-> TRUE,
                tracker_poll_interval |-> FALSE]

\* @dataclass rejects a field whose default is a list:
\* "mutable default <class 'list'> is not allowed: use default_factory"
dataclass_definable == \A f \in FieldNames : ~ListDefault[f]

\* raw option mappings: the keys present, and the value of each present key
RawOptions ==
    {o \in [present : SUBSET OptionKeys, device_tracker : BOOLEAN,
            tracked_clients : ClientLists, scanned_clients : ClientLists,
            tracker_poll_interval : PollIntervals] :
        \A f \in FieldNames : f \notin o.present => o[f] = FieldDefaults[f]}

NoOptions == [state |-> "unset", device_tracker |-> FALSE, tracked_clients |-> <<>>,
              scanned_clients |-> <<>>, tracker_poll_interval |-> 0]

\* OmadaIntegrationOptions(**{k: v for k, v in options.items()
\*                            if k in dataclasses.fields(OmadaIntegrationOptions)})
get_omada_options(o) ==
    LET kept == {k \in o.present : PyStr(k) \in dataclass_fields}
        val(f) == IF f \in kept THEN o[f] ELSE FieldDefaults[f]
    IN [state |-> "resolved",
        device_tracker |-> val("device_tracker"),
        tracked_clients |-> val("tracked_clients"),
        scanned_clients |-> val("scanned_clients"),
        tracker_poll_interval |-> val("tracker_poll_interval")]

VARIABLES
    rawOptions,   \* the options mapping given to OmadaSiteController.__init__
    options       \* self._options, or the failure to produce it

optVars == <<rawOptions, options>>

\* OmadaSiteController(hass, omada_client, options)
ControllerInit(o) ==
    /\ options.state = "unset"
    /\ rawOptions' = o
    /\ options' = IF dataclass_definable THEN get_omada_options(o)
                  ELSE [NoOptions EXCEPT !.state = "ValueError"]

OptionsInit ==
    /\ rawOptions = [present |-> {}, device_tracker |-> FALSE, tracked_clients |-> <<>>,
                     scanned_clients |-> <<>>, tracker_poll_interval |-> DEFAULT_TRACKER_POLL_INTERVAL]
    /\ options = NoOptions

(* ======================= device registry reconciliation ======================= *)
OMADA_DOMAIN == "tplink_omada"
CONNECTION_NETWORK_MAC == "mac"
ENTRY_ID == "omada_entry"
OTHER_ENTRY == "other_entry"
DevMacs == {"d1", "d2"}
DevNames == {"A", "B"}
DevModels == {"ER605"}
\* the devices the site can list: only d1 is ever renamed
ListDevices == {d \in [mac : DevMacs, name : DevNames, model_display_name : DevModels] :
                    d.mac = "d1" \/ d.name = "A"}
DeviceLists == SeqsUpTo(ListDevices, MaxDevices)
DevIds == 1..MaxDevIds
\* what another integration calls the device of a hardware address
OtherIdent == [d1 |-> "x1", d2 |-> "x2"]

VARIABLES
    registry,     \* host device registry: set of device rows
    entities,     \* host entity registry: set of <<device id, "enabled"|"disabled">>
    nextDev,      \* id of the next device row created
    synced        \* the devices mapping of the last registry sync

regVars == <<registry, entities, nextDev, synced>>

(* ---- host registries ---- *)
\* er.async_entries_for_device(registry, device_id, include_disabled_entities)
async_entries_for_device(device_id, include_disabled_entities) ==
    {e \in entities : e[1] = device_id /\ (include_disabled_entities \/ e[2] = "enabled")}

\* device_registry.devices.get_devices_for_config_entry_id(entry_id)
get_devices_for_config_entry_id(reg, entry_id) == {r \in reg : entry_id \in r.entries}

\* dr.async_get_or_create(...): the row matched by an identifier, else by a
\* connection, else a new row; the row takes the given fields
async_get_or_create(reg, nid, entry_id, connections, identifiers, manufacturer, model, name) ==
    LET byIdent == {r \in reg : r.idents \cap identifiers # {}}
        byConn == {r \in reg : r.conns \cap connections # {}}
        found == IF byIdent # {} THEN byIdent ELSE byConn
        old == IF found = {}
               THEN [id |-> nid, entries |-> {}, conns |-> {}, idents |-> {},
                     manufacturer |-> "None", model |-> "None", name |-> "None"]
               ELSE CHOOSE r \in found : \A q \in found : r.id <= q.id
        new == [id |-> old.id,
                entries |-> old.entries \cup {entry_id},
                conns |-> old.conns \cup connections,
                idents |-> old.idents \cup identifiers,
                manufacturer |-> manufacturer, model |-> model, name |-> name]
    IN [reg |-> (reg \ {old}) \cup {new}, nid |-> IF found = {} THEN nid + 1 ELSE nid]

(* ---- OmadaDevicesCoordinator ---- *)
\* {d.mac: d for d in await get_devices()}: a later device of the same mac wins
devices_dict(l) ==
    [k \in {l[i].mac : i \in DOMAIN l} |-> l[SetMax({i \in DOMAIN l : l[i].mac = k})]]

\* devices.values(): dict order is the order in which the keys first appear
RECURSIVE DictOrder(_, _)
DictOrder(l, seen) ==
    IF l = <<>> THEN <<>>
    ELSE IF Head(l).mac \in seen THEN DictOrder(Tail(l), seen)
    ELSE <<Head(l).mac>> \o DictOrder(Tail(l), seen \cup {Head(l).mac})

\* the "remove any devices that are no longer present" loop: the rows that
\* dr.async_remove_device leaves
RemoveAbsent(reg, devices, include_disabled_entities) ==
    {r \in reg :
        ~(/\ r \in get_devices_for_config_entry_id(reg, ENTRY_ID)
          /\ \A i \in r.idents : i[2] \notin DOMAIN devices
          /\ async_entries_for_device(r.id, include_disabled_entities) = {})}

\* the registry name is taken from the wrong attribute of the device
RECURSIVE MacNamedAddOrUpdate(_, _, _)
MacNamedAddOrUpdate(st, devices, order) ==
    IF order = <<>> THEN st
    ELSE LET device == devices[Head(order)]
         IN MacNamedAddOrUpdate(
                async_get_or_create(st.reg, st.nid, ENTRY_ID,
                                    {<<CONNECTION_NETWORK_MAC, device.mac>>},
                                    {<<OMADA_DOMAIN, device.mac>>},
                                    "TP-Link", device.model_display_name, device.mac),
                devices, Tail(order))

\* the identifier is built from the device name, not from its hardware address
RECURSIVE NameKeyedAddOrUpdate(_, _, _)
NameKeyedAddOrUpdate(st, devices, order) ==
    IF order = <<>> THEN st
    ELSE LET device == devices[Head(order)]
         IN NameKeyedAddOrUpdate(
                async_get_or_create(st.reg, st.nid, ENTRY_ID,
                                    {},
                                    {<<OMADA_DOMAIN, device.name>>},
                                    "TP-Link", device.model_display_name, device.name),
                devices, Tail(order))

\* the upsert passes no connection key
RECURSIVE ConnectionlessAddOrUpdate(_, _, _)
ConnectionlessAddOrUpdate(st, devices, order) ==
    IF order = <<>> THEN st
    ELSE LET device == devices[Head(order)]
         IN ConnectionlessAddOrUpdate(
                async_get_or_create(st.reg, st.nid, ENTRY_ID,
                                    {},
                                    {<<OMADA_DOMAIN, device.mac>>},
                                    "TP-Link", device.model_display_name, device.name),
                devices, Tail(order))

\* the "add or update all connected devices" loop
RECURSIVE AddOrUpdate(_, _, _)
AddOrUpdate(st, devices, order) ==
    IF order = <<>> THEN st
    ELSE LET device == devices[Head(order)]
         IN AddOrUpdate(
                async_get_or_create(st.reg, st.nid, ENTRY_ID,
                                    {<<CONNECTION_NETWORK_MAC, device.mac>>},
                                    {<<OMADA_DOMAIN, device.mac>>},
                                    "TP-Link", device.model_display_name, device.name),
                devices, Tail(order))

\* disabled entities do not keep a device
EnabledOnlyUpdateDeviceRegistry(reg, nid, devices, order) ==
    AddOrUpdate([reg |-> RemoveAbsent(reg, devices, FALSE), nid |-> nid], devices, order)

update_device_registry(reg, nid, devices, order) ==
    AddOrUpdate([reg |-> RemoveAbsent(reg, devices, TRUE), nid |-> nid], devices, order)

\* get_devices() answers l: poll_update builds the mapping, reconciles the
\* registry and returns the mapping, which becomes the snapshot
DevicesRespond(l) ==
    /\ fetching["devices"] > 0 /\ elapsed["devices"] < FetchTimeout
    /\ LET devices == devices_dict(l)
           st == update_device_registry(registry, nextDev, devices, DictOrder(l, {}))
       IN /\ st.nid <= MaxDevIds + 1
          /\ registry' = st.reg
          /\ nextDev' = st.nid
          /\ synced' = devices
          /\ entities' = entities
          /\ FinishRefresh("devices", Returned(devices), "ok")

\* the registry is reconciled with an empty mapping before the error escapes
SyncingDevicesError ==
    /\ VendorError("devices")
    /\ registry' = update_device_registry(registry, nextDev, <<>>, <<>>).reg
    /\ UNCHANGED <<entities, nextDev, synced>>

\* get_devices() raises: poll_update is left before the registry is touched
DevicesError ==
    /\ VendorError("devices")
    /\ UNCHANGED regVars

\* another integration registers a device it found by its hardware address,
\* under its own identifier scheme
OtherRegister(mac, ident) ==
    /\ nextDev <= MaxDevIds
    /\ LET st == async_get_or_create(registry, nextDev, OTHER_ENTRY,
                                     {<<CONNECTION_NETWORK_MAC, mac>>}, {<<"other", ident>>},
                                     "Other", "None", "None")
       IN registry' = st.reg /\ nextDev' = st.nid
    /\ registry' # registry
    /\ UNCHANGED <<entities, synced>>

AddEntity(id, kind) ==
    /\ \E r \in registry : r.id = id
    /\ \A e \in entities : e[1] # id
    /\ entities' = entities \cup {<<id, kind>>}
    /\ UNCHANGED <<registry, nextDev, synced>>

RemoveEntity(e) ==
    /\ e \in entities
    /\ entities' = entities \ {e}
    /\ UNCHANGED <<registry, nextDev, synced>>

RegInit ==
    /\ registry = {}
    /\ entities = {}
    /\ nextDev = 1
    /\ synced = <<>>

(* ======================= SceneStateSwitch ======================= *)
MaxSceneStates == 2

\* attribute values: attributes.get(attr) is the value or None
NoNum == [has |-> FALSE, v |-> 0]
Num(n) == [has |-> TRUE, v |-> n]
NoList == [has |-> FALSE, v |-> <<>>]
List(l) == [has |-> TRUE, v |-> l]
NumAttrs == {"brightness", "color_temp", "current_position", "current_tilt_position"}
ListAttrs == {"rgb_color", "rgbw_color", "rgbww_color"}
NoNums == [a \in NumAttrs |-> NoNum]
NoLists == [a \in ListAttrs |-> NoList]

\* a State object: of the scene configuration, or of hass.states (exists is
\* false where hass.states.get returns None)
EntityState(id, dom, st, modes, feats, nums, lists) ==
    [entity_id |-> id, domain |-> dom, exists |-> TRUE, state |-> st,
     supported_color_modes |-> modes, supported_features |-> feats,
     num |-> nums, list |-> lists]
Missing(id, dom) ==
    [EntityState(id, dom, "unknown", <<>>, 0, NoNums, NoLists) EXCEPT !.exists = FALSE]

\* CoverEntityFeature.SET_POSITION, CoverEntityFeature.SET_TILT_POSITION
SET_POSITION == 4
SET_TILT_POSITION == 128
\* the comparers' tolerance
FuzzyTolerance == 3

Red == <<255, 0, 0>>
Blue == <<0, 0, 255>>
LightNums(b, ct) == [NoNums EXCEPT !["brightness"] = b, !["color_temp"] = ct]
LightLists(rgb) == [NoLists EXCEPT !["rgb_color"] = rgb]
CoverNums(position, tilt) ==
    [NoNums EXCEPT !["current_position"] = position, !["current_tilt_position"] = tilt]

\* the states a scene can store
SceneLights ==
    {EntityState("light.a", "light", "off", <<>>, 0, NoNums, NoLists),
     EntityState("light.a", "light", "on", <<>>, 0, NoNums, NoLists),
     EntityState("light.a", "light", "on", <<>>, 0, LightNums(Num(100), NoNum), NoLists),
     EntityState("light.a", "light", "on", <<>>, 0, LightNums(Num(100), NoNum),
                 LightLists(List(Red)))}
SceneCovers ==
    {EntityState("cover.b", "cover", "closed", <<>>, 0, NoNums, NoLists),
     EntityState("cover.b", "cover", "open", <<>>, 0, CoverNums(Num(50), NoNum), NoLists)}
SceneSwitches ==
    {EntityState("switch.c", "switch", "on", <<>>, 0, NoNums, NoLists)}
SceneStates == SceneLights \cup SceneCovers \cup SceneSwitches
\* scene_config.states: a dict keyed by entity id, in the order of the configuration
Scenes == {l \in SeqsUpTo(SceneStates, MaxSceneStates) :
             \A i, j \in DOMAIN l : i # j => l[i].entity_id # l[j].entity_id}

\* the states the entities can be in
CurrentLights ==
    {Missing("light.a", "light"),
     EntityState("light.a", "light", "off", <<"brightness">>, 0, NoNums, NoLists)}
    \cup {EntityState("light.a", "light", "on", <<"brightness">>, 0, LightNums(Num(b), NoNum), NoLists) :
            b \in {100, 103, 104}}
    \cup {EntityState("light.a", "light", "on", <<"rgb">>, 0, LightNums(Num(b), NoNum),
                      LightLists(List(c))) : b \in {100, 200}, c \in {Red, Blue}}
    \cup {EntityState("light.a", "light", "on", <<"color_temp", "rgb">>, 0,
                      LightNums(Num(100), NoNum), LightLists(List(Red)))}
CurrentCovers ==
    {Missing("cover.b", "cover"),
     EntityState("cover.b", "cover", "closed", <<>>, SET_POSITION,
                 CoverNums(Num(0), NoNum), NoLists),
     EntityState("cover.b", "cover", "open", <<>>, 0, NoNums, NoLists),
     EntityState("cover.b", "cover", "open", <<>>, SET_POSITION + SET_TILT_POSITION,
                 CoverNums(Num(50), Num(10)), NoLists)}
    \cup {EntityState("cover.b", "cover", "open", <<>>, SET_POSITION,
                      CoverNums(Num(q), NoNum), NoLists) : q \in {47, 53, 54}}
CurrentSwitches ==
    {Missing("switch.c", "switch"),
     EntityState("switch.c", "switch", "on", <<>>, 0, NoNums, NoLists),
     EntityState("switch.c", "switch", "off", <<>>, 0, NoNums, NoLists)}
CurrentStates == CurrentLights \cup CurrentCovers \cup CurrentSwitches
EntityIds == {"light.a", "cover.b", "switch.c"}

Abs(x) == IF x < 0 THEN -x ELSE x
\* supported_features & key > 0, for a key that is a single bit
HasFeature(feats, key) == (feats \div key) % 2 = 1

\* fuzzyAttrs and listAttrs of _compare_light_state, keyed by ColorMode
LightFuzzyAttrs == [brightness |-> "brightness", color_temp |-> "color_temp"]
LightListAttrs == [rgb |-> "rgb_color", rgbw |-> "rgbw_color", rgbww |-> "rgbww_color"]
\* fuzzyAttrs of _compare_cover_state, in the order of the dict
CoverFuzzyAttrs == <<[key |-> SET_POSITION, attr |-> "current_position"],
                     [key |-> SET_TILT_POSITION, attr |-> "current_tilt_position"]>>

\* abs(current - scene) > 3, with None on either side raising TypeError
FuzzyDiffers(c, s) ==
    IF ~c.has \/ ~s.has THEN "TypeError"
    ELSE IF Abs(c.v - s.v) > FuzzyTolerance THEN "True" ELSE "False"

\* the "for key in supported_color_modes" loop
RECURSIVE LightModesLoop(_, _, _)
LightModesLoop(modes, currentState, sceneState) ==
    IF modes = <<>> THEN "True"
    ELSE LET key == Head(modes)
             rest == LightModesLoop(Tail(modes), currentState, sceneState)
         IN IF key \in DOMAIN LightFuzzyAttrs
            THEN LET d == FuzzyDiffers(currentState.num[LightFuzzyAttrs[key]],
                                       sceneState.num[LightFuzzyAttrs[key]])
                 IN IF d = "TypeError" THEN "TypeError"
                    ELSE IF d = "True" THEN "False" ELSE rest
            ELSE IF /\ key \in DOMAIN LightListAttrs
                    /\ currentState.list[LightListAttrs[key]] # sceneState.list[LightListAttrs[key]]
                 THEN "False" ELSE rest

compare_light_state(sceneState, currentState) ==
    IF ~currentState.exists THEN "False"
    ELSE IF currentState.state # sceneState.state THEN "False"
    ELSE IF currentState.state = "off" THEN "True"
    ELSE LightModesLoop(currentState.supported_color_modes, currentState, sceneState)

\* the "for key, attr in fuzzyAttrs.items()" loop
RECURSIVE CoverFeaturesLoop(_, _, _)
CoverFeaturesLoop(items, currentState, sceneState) ==
    IF items = <<>> THEN "True"
    ELSE LET rest == CoverFeaturesLoop(Tail(items), currentState, sceneState)
         IN IF HasFeature(currentState.supported_features, Head(items).key)
            THEN LET d == FuzzyDiffers(currentState.num[Head(items).attr],
                                       sceneState.num[Head(items).attr])
                 IN IF d = "TypeError" THEN "TypeError"
                    ELSE IF d = "True" THEN "False" ELSE rest
            ELSE rest

compare_cover_state(sceneState, currentState) ==
    IF ~currentState.exists THEN "False"
    ELSE IF currentState.state # sceneState.state THEN "False"
    ELSE IF currentState.state = "closed" THEN "True"
    ELSE CoverFeaturesLoop(CoverFuzzyAttrs, currentState, sceneState)

compare_simple_state(sceneState, currentState) ==
    IF currentState.exists /\ currentState.state = sceneState.state THEN "True" ELSE "False"

\* switch.get(sceneState.domain, self._compare_simple_state)
comparer(sceneState, currentState) ==
    IF sceneState.domain = "light" THEN compare_light_state(sceneState, currentState)
    ELSE IF sceneState.domain = "cover" THEN compare_cover_state(sceneState, currentState)
    ELSE compare_simple_state(sceneState, currentState)

\* the loop of update(): "False" at the first state that differs, the
\* exception of a comparer that raises, "True" at the end
RECURSIVE update_loop(_, _)
update_loop(states, hass_states) ==
    IF states = <<>> THEN "True"
    ELSE LET r == comparer(Head(states), hass_states[Head(states).entity_id])
         IN IF r = "True" THEN update_loop(Tail(states), hass_states) ELSE r

VARIABLES
    scene,         \* scene_config.states of the tracked scene, in dict order
    hass_states,   \* hass.states: entity id -> current state
    switch_state,  \* self._state
    updated        \* how update() ended, "none" once anything changed after it

sceneVars == <<scene, hass_states, switch_state, updated>>

\* the scene platform holds the configuration of the tracked scene
SceneConfigure(s) ==
    /\ scene = <<>> /\ s # <<>>
    /\ scene' = s
    /\ updated' = "none"
    /\ UNCHANGED <<hass_states, switch_state>>

\* an entity changes state
StateChanged(st) ==
    /\ st # hass_states[st.entity_id]
    /\ hass_states' = [hass_states EXCEPT ![st.entity_id] = st]
    /\ updated' = "none"
    /\ UNCHANGED <<scene, switch_state>>

\* SceneStateSwitch.update()
SceneUpdate ==
    /\ LET r == update_loop(scene, hass_states)
       IN /\ switch_state' = IF r = "TypeError" THEN switch_state ELSE (r = "True")
          /\ updated' = IF r = "TypeError" THEN "TypeError" ELSE "returned"
    /\ UNCHANGED <<scene, hass_states>>

\* async_turn_on(): self._state = True, scene.turn_on is called without waiting
SceneTurnOn ==
    /\ switch_state' = TRUE
    /\ updated' = "none"
    /\ UNCHANGED <<scene, hass_states>>

\* async_turn_off() up to its await: self._state = False
SceneTurnOff ==
    /\ switch_state' = FALSE
    /\ updated' = "none"
    /\ UNCHANGED <<scene, hass_states>>

SceneInit ==
    /\ scene = <<>>
    /\ hass_states = [e \in EntityIds |->
                        Missing(e, IF e = "light.a" THEN "light"
                                   ELSE IF e = "cover.b" THEN "cover" ELSE "switch")]
    /\ switch_state = FALSE
    /\ updated = "none"

(* ======================= GammaAdjustedLight ======================= *)
\* the wrapper of the model is built with min_brightness 20 and gamma 1.0
min_brightness == 20

ColourModes == {"hs", "rgb", "xy", "rgbw", "rgbww"}
\* the supported_color_modes a wrapped light can report
ChildModeSets == {{}, {"onoff"}, {"brightness"}, {"color_temp"}, {"hs"}, {"xy"},
                  {"color_temp", "hs"}, {"color_temp", "rgbw"}}
ChildBrightness == {NoNum, Num(128), Num(255)}
ChildColorTemps == {NoNum, Num(300)}
ChildXY == {NoList, List(<<3, 4>>)}
\* hass.states.get(light_entity_id): None, or a state with its attributes
ChildStates ==
    [exists : {TRUE}, state : {"on"}, brightness : ChildBrightness,
     color_temp : ChildColorTemps, xy_color : ChildXY]
    \cup [exists : BOOLEAN, state : {"off", "unavailable"}, brightness : {NoNum},
          color_temp : {NoNum}, xy_color : {NoList}]

\* round(): to the nearest integer, a tie to the even one
RoundDiv(n, d) ==
    LET q == n \div d
        r == n % d
    IN IF 2 * r < d THEN q
       ELSE IF 2 * r > d THEN q + 1
       ELSE IF q % 2 = 0 THEN q ELSE q + 1

\* round(pow(max(0, brightness * 100 / 255 - min_brightness) / (100 - min_brightness), 1 / 1.0) * 255)
adjusted_brightness(brightness) ==
    LET n == 100 * brightness - 255 * min_brightness
    IN RoundDiv(IF n < 0 THEN 0 ELSE n, 100 - min_brightness)

\* the if / elif / elif that sets the light modes according to the child entity
next_color_mode(supported_modes, color_mode) ==
    IF supported_modes \cap ColourModes # {} /\ color_mode # "xy" THEN "xy"
    ELSE IF "color_temp" \in supported_modes /\ color_mode # "color_temp" THEN "color_temp"
    ELSE IF "color_temp" \in supported_modes /\ color_mode # "brightness" THEN "brightness"
    ELSE color_mode

VARIABLES
    child_modes,            \* supported_color_modes of the wrapped light, "unset" before it is known
    attr_color_mode,        \* self._attr_color_mode
    attr_supported_modes,   \* self._attr_supported_color_modes
    attr_is_on,             \* self._attr_is_on
    attr_brightness,        \* self._attr_brightness
    attr_xy_color,          \* self._attr_xy_color
    attr_color_temp,        \* self._attr_color_temp
    attr_available,         \* self._attr_available
    handled,                \* events that got as far as the light modes: 0, 1, or 2 for more
    listener_raised         \* the last listener call ended with KeyError

gammaVars == <<child_modes, attr_color_mode, attr_supported_modes, attr_is_on, attr_brightness,
               attr_xy_color, attr_color_temp, attr_available, handled, listener_raised>>

\* the wrapped light is set up: what it supports is fixed from here on
ChildSetup(modes) ==
    /\ child_modes = {"unset"}
    /\ child_modes' = modes
    /\ UNCHANGED <<attr_color_mode, attr_supported_modes, attr_is_on, attr_brightness,
                   attr_xy_color, attr_color_temp, attr_available, handled, listener_raised>>

\* async_state_changed_listener(event), the child being in state `state`
async_state_changed_listener(state) ==
    /\ child_modes # {"unset"}
    /\ IF ~state.exists \/ state.state = "unavailable"
       THEN /\ attr_available' = FALSE
            /\ listener_raised' = FALSE
            /\ UNCHANGED <<attr_color_mode, attr_supported_modes, attr_is_on, attr_brightness,
                           attr_xy_color, attr_color_temp, handled>>
       ELSE LET mode == next_color_mode(child_modes, attr_color_mode)
                on == state.state = "on"
                \* state.attributes[...] of an attribute that is not there
                keyError == on /\ (\/ ~state.brightness.has
                                   \/ mode = "xy" /\ ~state.xy_color.has
                                   \/ mode = "color_temp" /\ ~state.color_temp.has)
            IN /\ attr_color_mode' = mode
               /\ attr_supported_modes' =
                     IF mode # attr_color_mode THEN {mode} ELSE attr_supported_modes
               /\ attr_is_on' = on
               /\ attr_brightness' =
                     IF on /\ state.brightness.has
                     THEN Num(adjusted_brightness(state.brightness.v)) ELSE attr_brightness
               /\ attr_xy_color' =
                     IF on /\ state.brightness.has /\ mode = "xy" /\ state.xy_color.has
                     THEN state.xy_color ELSE attr_xy_color
               /\ attr_color_temp' =
                     IF on /\ state.brightness.has /\ mode = "color_temp" /\ state.color_temp.has
                     THEN state.color_temp ELSE attr_color_temp
               /\ attr_available' = IF keyError THEN attr_available ELSE TRUE
               /\ listener_raised' = keyError
               /\ handled' = IF handled < 2 THEN handled + 1 ELSE handled
    /\ UNCHANGED child_modes

GammaInit ==
    /\ child_modes = {"unset"}
    /\ attr_color_mode = "brightness"
    /\ attr_supported_modes = {"brightness"}
    /\ attr_is_on = FALSE
    /\ attr_brightness = NoNum
    /\ attr_xy_color = NoList
    /\ attr_color_temp = NoNum
    /\ attr_available = TRUE
    /\ handled = 0
    /\ listener_raised = FALSE

CoordInit ==
    /\ data = [c \in Coords |-> <<>>]
    /\ lastError = [c \in Coords |-> None]
    /\ fetching = [c \in Coords |-> 0]
    /\ pending = [c \in Coords |-> NoResponse]
    /\ elapsed = [c \in Coords |-> 0]
    /\ waiting = [c \in Coords |-> {}]
    /\ outcome = [c \in Coords |-> "none"]
    /\ raised = [c \in Coords |-> FALSE]
    /\ before = [c \in Coords |-> <<>>]

vars == <<coordVars, ctrlVars, regVars, clientVars, gwVars, schedVars, optVars, sceneVars, gammaVars>>

\* everything but the named part of the state
exceptCoord == <<ctrlVars, regVars, clientVars, gwVars, schedVars, optVars, sceneVars, gammaVars>>
exceptCtrl == <<coordVars, regVars, clientVars, gwVars, schedVars, optVars, sceneVars, gammaVars>>
exceptReg == <<coordVars, ctrlVars, clientVars, gwVars, schedVars, optVars, sceneVars, gammaVars>>
exceptCoordReg == <<ctrlVars, clientVars, gwVars, schedVars, optVars, sceneVars, gammaVars>>
exceptCoordClients == <<ctrlVars, regVars, gwVars, schedVars, optVars, sceneVars, gammaVars>>
exceptCoordGw == <<ctrlVars, regVars, clientVars, schedVars, optVars, sceneVars, gammaVars>>
exceptGw == <<coordVars, ctrlVars, regVars, clientVars, schedVars, optVars, sceneVars, gammaVars>>
exceptCoordSched == <<ctrlVars, regVars, clientVars, gwVars, optVars, sceneVars, gammaVars>>
exceptOpt == <<coordVars, ctrlVars, regVars, clientVars, gwVars, schedVars, sceneVars, gammaVars>>
exceptScene == <<coordVars, ctrlVars, regVars, clientVars, gwVars, schedVars, optVars, gammaVars>>
exceptGamma == <<coordVars, ctrlVars, regVars, clientVars, gwVars, schedVars, optVars, sceneVars>>

Init == CoordInit /\ CtrlInit /\ RegInit /\ ClientsInit /\ GatewayInit /\ SchedInit /\ OptionsInit /\ SceneInit /\ GammaInit

CoordNext ==
    \/ \E caller \in Callers : RefreshNow("c1", caller, Responses) /\ UNCHANGED exceptCoord
    \/ VendorRespond("c1") /\ UNCHANGED exceptCoord
    \/ VendorError("c1") /\ UNCHANGED exceptCoord
    \/ ClockTick("c1") /\ UNCHANGED exceptCoord
    \/ TimeoutExpire("c1") /\ UNCHANGED exceptCoord

Spec == Init /\ [][CoordNext]_vars

CtrlNext ==
    \/ \E sw \in Switches : get_switch_port_coordinator(sw) /\ UNCHANGED exceptCtrl
    \/ \E t \in Tasks : gateway_call(t) /\ UNCHANGED exceptCtrl
    \/ \E t \in Tasks : gateway_resume(t) /\ UNCHANGED exceptCtrl
    \/ \E t \in Tasks : gateway_error(t) /\ UNCHANGED exceptCtrl
    \/ get_clients_coordinator /\ UNCHANGED exceptCtrl
    \/ SiteChange /\ UNCHANGED exceptCtrl

SpecCtrl == Init /\ [][CtrlNext]_vars

RegNext ==
    \/ RefreshNow("devices", "timer", {<<>>}) /\ UNCHANGED exceptCoord
    \/ \E l \in DeviceLists : DevicesRespond(l) /\ UNCHANGED exceptCoordReg
    \/ VendorError("devices") /\ UNCHANGED exceptCoord
    \/ \E mac \in DevMacs : \E ident \in {mac, OtherIdent[mac]} :
            OtherRegister(mac, ident) /\ UNCHANGED exceptReg
    \/ \E id \in DevIds, kind \in {"enabled", "disabled"} :
            AddEntity(id, kind) /\ UNCHANGED exceptReg
    \/ \E e \in entities : RemoveEntity(e) /\ UNCHANGED exceptReg

SpecReg == Init /\ [][RegNext]_vars

ClientsNext ==
    \/ \E caller \in {"u1", "timer"} : ClientsRefresh(caller) /\ UNCHANGED exceptCoordClients
    \/ ClientsYield /\ UNCHANGED exceptCoordClients
    \/ ClientsEnd /\ UNCHANGED exceptCoordClients
    \/ ClientsError /\ UNCHANGED exceptCoordClients
    \/ ClockTick("clients") /\ UNCHANGED exceptCoord
    \/ TimeoutExpire("clients") /\ UNCHANGED exceptCoord

SpecClients == Init /\ [][ClientsNext]_vars

GatewayNext ==
    \/ \E mac \in GatewayMacs : GatewayConstruct(mac) /\ UNCHANGED exceptGw
    \/ \E caller \in {"u1", "timer"} : GatewayRefresh(caller) /\ UNCHANGED exceptCoordGw
    \/ \E gateway \in Gateways : GatewayRespond(gateway) /\ UNCHANGED exceptCoordGw
    \/ VendorError("gateway") /\ UNCHANGED exceptCoord
    \/ ClockTick("gateway") /\ UNCHANGED exceptCoord
    \/ TimeoutExpire("gateway") /\ UNCHANGED exceptCoord

SpecGateway == Init /\ [][GatewayNext]_vars

\* one coordinator with a poll interval and one without
SchedNext ==
    \/ \E c \in {"c1", "manual"} : Subscribe(c) /\ UNCHANGED exceptCoordSched
    \/ TimePasses("c1") /\ UNCHANGED exceptCoordSched
    \/ ScheduledTick("c1") /\ UNCHANGED exceptCoordSched
    \/ UserRefresh("manual") /\ UNCHANGED exceptCoordSched
    \/ \E c \in {"c1", "manual"} : LiveRespond(c) /\ UNCHANGED exceptCoordSched
    \/ LiveError("c1") /\ UNCHANGED exceptCoordSched
    \/ LiveTimeout("c1") /\ UNCHANGED exceptCoordSched
    \/ Teardown("c1") /\ UNCHANGED exceptCoordSched
    \/ DiscardResult("c1") /\ UNCHANGED exceptCoordSched

SpecSched == Init /\ [][SchedNext]_vars

OptionsNext ==
    \E o \in RawOptions : ControllerInit(o) /\ UNCHANGED exceptOpt

SpecOptions == Init /\ [][OptionsNext]_vars

\* the port coordinators of two switches
MultiNext ==
    \/ \E c \in {"c1", "c2"} : RefreshNow(c, "timer", SchedResponses) /\ UNCHANGED exceptCoord
    \/ \E c \in {"c1", "c2"} : VendorRespond(c) /\ UNCHANGED exceptCoord
    \/ \E c \in {"c1", "c2"} : VendorError(c) /\ UNCHANGED exceptCoord
    \/ \E c \in {"c1", "c2"} : ClockTick(c) /\ UNCHANGED exceptCoord
    \/ \E c \in {"c1", "c2"} : TimeoutExpire(c) /\ UNCHANGED exceptCoord

SpecMulti == Init /\ [][MultiNext]_vars

\* one scheduled coordinator, with the host's timer and clock running and
\* fetches that succeed again and again
RetryNext ==
    \/ Subscribe("c1") /\ UNCHANGED exceptCoordSched
    \/ TimePasses("c1") /\ UNCHANGED exceptCoordSched
    \/ ScheduledTick("c1") /\ UNCHANGED exceptCoordSched
    \/ LiveRespond("c1") /\ UNCHANGED exceptCoordSched
    \/ LiveError("c1") /\ UNCHANGED exceptCoordSched
    \/ LiveTimeout("c1") /\ UNCHANGED exceptCoordSched

\* every one of these steps changes the timer, the fetch clock or the fetch count
progressVars == <<sinceTick, elapsed, fetching>>

\* every coordinator polling and the controller being called, side by side
FrameDeviceLists ==
    {<<>>, <<[mac |-> "d1", name |-> "A", model_display_name |-> "ER605"]>>}
FramePorts == {<<[port_id |-> "p1", val |-> "a"]>>}
FrameStreams == {<<>>, <<[mac |-> "k1", type |-> "wireless"]>>}
FrameSwitch == [mac |-> "m1", name |-> "n1"]
FrameSite == <<[mac |-> "g1", type |-> "gateway"]>>
FrameGateway == [mac |-> "g1", val |-> "a"]

FrameNext ==
    \/ RefreshNow("devices", "timer", {<<>>}) /\ UNCHANGED exceptCoord
    \/ \E l \in FrameDeviceLists : DevicesRespond(l) /\ UNCHANGED exceptCoordReg
    \/ DevicesError /\ UNCHANGED exceptCoordReg
    \/ RefreshNow("c1", "timer", FramePorts) /\ UNCHANGED exceptCoord
    \/ VendorRespond("c1") /\ UNCHANGED exceptCoord
    \/ GatewayConstruct(FrameGateway.mac) /\ UNCHANGED exceptGw
    \/ GatewayRefresh("timer") /\ UNCHANGED exceptCoordGw
    \/ GatewayRespond(FrameGateway) /\ UNCHANGED exceptCoordGw
    \/ ClientsRefresh("timer") /\ stream' \in FrameStreams /\ UNCHANGED exceptCoordClients
    \/ ClientsYield /\ UNCHANGED exceptCoordClients
    \/ ClientsEnd /\ UNCHANGED exceptCoordClients
    \/ get_switch_port_coordinator(FrameSwitch) /\ UNCHANGED exceptCtrl
    \/ gateway_call("t1") /\ UNCHANGED exceptCtrl
    \/ gateway_resume("t1") /\ UNCHANGED exceptCtrl
    \/ get_clients_coordinator /\ UNCHANGED exceptCtrl
    \/ SiteChange /\ site' = FrameSite /\ UNCHANGED exceptCtrl

SpecFrame == Init /\ [][FrameNext]_vars

SceneNext ==
    \/ \E s \in Scenes : SceneConfigure(s) /\ UNCHANGED exceptScene
    \/ \E st \in CurrentStates : StateChanged(st) /\ UNCHANGED exceptScene
    \/ SceneUpdate /\ UNCHANGED exceptScene
    \/ SceneTurnOn /\ UNCHANGED exceptScene
    \/ SceneTurnOff /\ UNCHANGED exceptScene

SpecScene == Init /\ [][SceneNext]_vars

GammaNext ==
    \/ \E modes \in ChildModeSets : ChildSetup(modes) /\ UNCHANGED exceptGamma
    \/ \E state \in ChildStates : async_state_changed_listener(state) /\ UNCHANGED exceptGamma

SpecGamma == Init /\ [][GammaNext]_vars

SpecRetry ==
    /\ Init /\ [][RetryNext]_vars
    /\ WF_progressVars(TimePasses("c1") /\ UNCHANGED exceptCoordSched)
    /\ WF_progressVars(ScheduledTick("c1") /\ UNCHANGED exceptCoordSched)
    /\ WF_progressVars(LiveTimeout("c1") /\ UNCHANGED exceptCoordSched)
    /\ SF_progressVars(LiveRespond("c1") /\ UNCHANGED exceptCoordSched)

(* ======================= claims: polling coordinator ======================= *)
PollEnds(c) == fetching[c] > 0 /\ fetching'[c] < fetching[c]
KeysOf(ports) == {ports[i].port_id : i \in DOMAIN ports}

\* C1: after a successful poll the snapshot is exactly the mapping returned by
\* that fetch; no key that only the previous snapshot had survives.
C1_FullReplace ==
    [][\A c \in Coords :
        (PollEnds(c) /\ outcome'[c] = "ok") =>
            /\ data'[c] = poll_update(pending[c])
            /\ DOMAIN data'[c] = KeysOf(pending[c])
            /\ \A k \in DOMAIN data[c] \ KeysOf(pending[c]) : k \notin DOMAIN data'[c]]_vars

C1_Witness ==
    \E c \in Coords :
        /\ outcome[c] = "ok" /\ fetching[c] = 0
        /\ "p2" \in DOMAIN before[c]
        /\ DOMAIN data[c] = {"p1"}

\* C2: a poll that fails (vendor error or timeout) leaves the snapshot as it
\* was and sets the last error; a successful poll resets the last error.
C2_FailureKeepsSnapshot ==
    [][\A c \in Coords :
        /\ (PollEnds(c) /\ outcome'[c] \in {"vendor_error", "timeout"}) =>
                (data'[c] = data[c] /\ lastError'[c] # None)
        /\ (PollEnds(c) /\ outcome'[c] = "ok") => lastError'[c] = None]_vars

C2_Witness ==
    \E c \in Coords :
        /\ outcome[c] = "vendor_error" /\ fetching[c] = 0
        /\ lastError[c] # None
        /\ data[c] # <<>> /\ data[c] = before[c]

\* C3: at most one fetch is in flight per coordinator; a refresh requested
\* while one is in flight issues no fetch and the caller joins the in-flight
\* one, whose end releases every waiting caller.
C3_SingleFetchInFlight ==
    [][\A c \in Coords :
        /\ fetching'[c] <= 1
        /\ (fetching[c] > 0 /\ waiting[c] # {} /\ waiting[c] \subseteq waiting'[c]
                /\ waiting'[c] # waiting[c]) =>
                (fetching'[c] = fetching[c] /\ pending'[c] = pending[c]
                    /\ elapsed'[c] = elapsed[c])
        /\ PollEnds(c) => (fetching'[c] = 0 /\ waiting'[c] = {})]_vars

C3_Witness ==
    \E c \in Coords : fetching[c] = 1 /\ {"u1", "u2"} \subseteq waiting[c]

\* C4: a fetch still running after 10 time units is abandoned as a timeout
\* failure and the snapshot stays the one from before the fetch.
C4_TimeoutAbandons ==
    [][\A c \in Coords :
        /\ elapsed'[c] <= 10
        /\ (PollEnds(c) /\ elapsed[c] = 10) =>
                /\ outcome'[c] = "timeout"
                /\ lastError'[c] = "TimeoutError"
                /\ data'[c] = data[c] /\ data'[c] = before[c]
        /\ (PollEnds(c) /\ outcome'[c] = "timeout") => elapsed[c] = 10]_vars

C4_Witness ==
    \E c \in Coords :
        /\ outcome[c] = "timeout" /\ fetching[c] = 0
        /\ data[c] # <<>> /\ data[c] = before[c]

\* C5: a vendor exception or a timeout never escapes to the callers: it is
\* captured as the failure state, and the coordinator can be ticked again.
C5_NoPropagation ==
    \A c \in Coords :
        /\ ~raised[c]
        /\ (fetching[c] = 0 /\ outcome[c] = "vendor_error") => lastError[c] = "UpdateFailed"
        /\ (fetching[c] = 0 /\ outcome[c] = "timeout") => lastError[c] = "TimeoutError"
        /\ fetching[c] = 0 => ENABLED RefreshNow(c, "timer", Responses)

C5_Witness ==
    \E c \in Coords :
        /\ fetching[c] = 1 /\ "timer" \in waiting[c]
        /\ outcome[c] \in {"vendor_error", "timeout"}
        /\ lastError[c] # None

(* ======================= claims: site controller ======================= *)
\* C6: get_switch_port_coordinator returns the cached instance of the switch's
\* hardware address: same address, same instance; different addresses,
\* different instances; one entry per address ever requested, never evicted
\* or replaced.
C6_SwitchCache ==
    /\ [](/\ DOMAIN switch_port_coordinators = requested
          /\ \A m \in DOMAIN switch_port_coordinators :
                /\ IsCoord(switch_port_coordinators[m])
                /\ switch_port_coordinators[m].key = m
                /\ built[m] = 1
          /\ \A m, n \in DOMAIN switch_port_coordinators :
                m # n => switch_port_coordinators[m].id # switch_port_coordinators[n].id
          /\ IsCoord(switchRet.ret) =>
                switchRet.ret = switch_port_coordinators[switchRet.arg.mac])
    /\ [][\A m \in DOMAIN switch_port_coordinators :
            /\ m \in DOMAIN switch_port_coordinators'
            /\ switch_port_coordinators'[m] = switch_port_coordinators[m]]_vars

\* a repeat call with another switch object of the same address, two entries
C6_Witness ==
    /\ DOMAIN switch_port_coordinators = Macs
    /\ IsCoord(switchRet.ret)
    /\ switchRet.arg.name # switchRet.ret.name

\* C7: the device list is fetched only by the first get_gateway_coordinator
\* call; when it held no gateway every later call returns None without
\* fetching, even if the site has a gateway by then.
C7_GatewayLookupOnce ==
    /\ [](/\ deviceFetches <= 1
          /\ answered = "missing" =>
                /\ gateway_coordinator = NoCoord
                /\ \A t \in Tasks :
                      (gwAt[t] = "missing" /\ gwpc[t] = "done") => gwret[t] = NoCoord)
    /\ [][initialized_gateway_coordinator =>
            (deviceFetches' = deviceFetches /\ initialized_gateway_coordinator')]_vars

C7_Witness ==
    /\ answered = "missing" /\ deviceFetches = 1
    /\ \E t \in Tasks :
          gwAt[t] = "missing" /\ gwSaw[t] /\ gwpc[t] = "done" /\ gwret[t] = NoCoord

\* C8: get_clients_coordinator returns a ClientsCoordinator from its first
\* call on, always the same one, and exactly one is ever constructed.
C8_ClientsSingleton ==
    clientsRet # NotReturned =>
        /\ IsCoord(clientsRet)
        /\ clientsRet = clients_coordinator
        /\ built["clients"] = 1

\* C9: under any interleaving each coordinator is constructed at most once and
\* a stored reference is never replaced by another instance.
C9_BuiltOnceNeverReplaced ==
    /\ [](\A k \in BuildKeys : built[k] <= 1)
    /\ [][/\ IsCoord(gateway_coordinator) => gateway_coordinator' = gateway_coordinator
          /\ IsCoord(clients_coordinator) => clients_coordinator' = clients_coordinator
          /\ \A m \in DOMAIN switch_port_coordinators :
                /\ m \in DOMAIN switch_port_coordinators'
                /\ switch_port_coordinators'[m].id = switch_port_coordinators[m].id]_vars

\* a call that overlapped the first one's device-list fetch, and the gateway built
C9_Witness ==
    \E t, u \in Tasks :
        /\ t # u
        /\ gwpc[t] = "done" /\ IsCoord(gwret[t]) /\ gwret[t] = gateway_coordinator
        /\ gwpc[u] = "done" /\ gwAt[u] = "no" /\ ~IsCoord(gwret[u])
        /\ built["gateway"] = 1
        /\ DOMAIN switch_port_coordinators # {}

(* ======================= claims: device registry ======================= *)
\* C10: the registry sync removes a device of this integration only when none
\* of its identifiers is in the current key set and no entity, enabled or
\* disabled, references it; a device with entities, or with an identifier in
\* the current set, stays.
C10_RemoveOnlyOrphans ==
    [][\A r \in registry :
        (\A q \in registry' : q.id # r.id) =>
            /\ ENTRY_ID \in r.entries
            /\ \A i \in r.idents : i[2] \notin DOMAIN synced'
            /\ \A e \in entities : e[1] # r.id]_vars

\* one absent device was removed, another absent one is kept by its disabled entity
C10_Witness ==
    /\ outcome["devices"] = "ok" /\ fetching["devices"] = 0
    /\ Cardinality(registry) < nextDev - 1
    /\ \E r \in registry :
          /\ ENTRY_ID \in r.entries
          /\ \A i \in r.idents : i[2] \notin DOMAIN synced
          /\ <<r.id, "disabled">> \in entities

DevicesPollOk ==
    fetching["devices"] > 0 /\ fetching'["devices"] = 0 /\ outcome'["devices"] = "ok"
HasEntities(id) == \E e \in entities : e[1] = id
AbsentFrom(r, devices) == \A i \in r.idents : i[2] \notin DOMAIN devices

\* C11: a successful devices poll has synced the registry with the snapshot it
\* publishes: every key of the snapshot has a row of this integration,
\* identified by that hardware address, with manufacturer, model and name of
\* the fetched record; every row of the integration without entities that is
\* absent from the snapshot is gone.
C11_PollSyncsRegistry ==
    [][DevicesPollOk =>
        /\ synced' = data'["devices"]
        /\ \A k \in DOMAIN data'["devices"] :
              \E r \in registry' :
                  /\ ENTRY_ID \in r.entries
                  /\ <<OMADA_DOMAIN, k>> \in r.idents
                  /\ r.manufacturer = "TP-Link"
                  /\ r.model = data'["devices"][k].model_display_name
                  /\ r.name = data'["devices"][k].name
        /\ \A r \in registry :
              (ENTRY_ID \in r.entries /\ ~HasEntities(r.id)
                    /\ AbsentFrom(r, data'["devices"])) =>
                  \A q \in registry' : q.id # r.id]_vars

\* two devices published, each with its row; d1 under the name B
C11_Witness ==
    /\ outcome["devices"] = "ok" /\ fetching["devices"] = 0
    /\ DOMAIN data["devices"] = DevMacs
    /\ data["devices"]["d1"].name = "B"
    /\ \E r \in registry : r.id = 1 /\ r.name = "B" /\ <<OMADA_DOMAIN, "d1">> \in r.idents

\* C12: the registry sync is idempotent: a second run with the same devices
\* and the same entity registry changes nothing the first run left.
C12_SyncIdempotent ==
    \A l \in DeviceLists :
        LET devices == devices_dict(l)
            order == DictOrder(l, {})
            once == update_device_registry(registry, nextDev, devices, order)
            twice == update_device_registry(once.reg, once.nid, devices, order)
        IN twice = once

\* a sync that removed a row and renamed another has run
C12_Witness ==
    /\ outcome["devices"] = "ok" /\ fetching["devices"] = 0
    /\ DOMAIN synced = {"d1"}
    /\ Cardinality(registry) < nextDev - 1
    /\ \E r \in registry : r.name = "B"

\* C13: the registry holds at most one row per hardware address: a device
\* registered under another identifier scheme with the same MAC connection is
\* updated in place, not duplicated.
AddressesOf(r) ==
    {c[2] : c \in {x \in r.conns : x[1] = CONNECTION_NETWORK_MAC}}
        \cup {i[2] : i \in {x \in r.idents : x[1] = OMADA_DOMAIN}}

C13_OneRowPerAddress ==
    \A r, q \in registry :
        r # q => (r.id # q.id /\ AddressesOf(r) \cap AddressesOf(q) = {})

\* a row first known to another integration now also carries this one's identifier
C13_Witness ==
    \E r \in registry :
        /\ {ENTRY_ID, OTHER_ENTRY} \subseteq r.entries
        /\ <<"other", "x1">> \in r.idents /\ <<OMADA_DOMAIN, "d1">> \in r.idents
        /\ r.conns = {<<CONNECTION_NETWORK_MAC, "d1">>}
        /\ r.name \in DevNames
        /\ Cardinality(registry) = 2

(* ======================= claims: specialized coordinators ======================= *)
ClientsPollOk ==
    fetching["clients"] > 0 /\ fetching'["clients"] = 0 /\ outcome'["clients"] = "ok"

\* C14: the snapshot a clients poll publishes holds exactly the wireless
\* clients of the fetched stream, each under its hardware address, and no
\* client of another transport; the stream is consumed once, item by item.
C14_WirelessOnly ==
    [][/\ ClientsPollOk =>
            /\ pos = Len(stream)
            /\ \A i \in DOMAIN stream :
                  stream[i].type = "wireless" =>
                      /\ stream[i].mac \in DOMAIN data'["clients"]
                      /\ data'["clients"][stream[i].mac] = stream[i]
            /\ \A k \in DOMAIN data'["clients"] :
                  /\ data'["clients"][k].type = "wireless"
                  /\ data'["clients"][k].mac = k
                  /\ \E i \in DOMAIN stream : stream[i] = data'["clients"][k]
       /\ (fetching["clients"] > 0 /\ pos' # pos) => (pos' = pos + 1 /\ stream' = stream)]_vars

\* a stream with a wired and a wireless client was published
C14_Witness ==
    /\ outcome["clients"] = "ok" /\ fetching["clients"] = 0
    /\ \E i, j \in DOMAIN stream : stream[i].type = "wired" /\ stream[j].type = "wireless"
    /\ Cardinality(DOMAIN data["clients"]) = 1

\* C15: every snapshot the gateway coordinator publishes has exactly one
\* entry, under the mac given at construction, whatever record was fetched;
\* the key set is the same after every poll.
C15_GatewaySingleEntry ==
    /\ [](data["gateway"] # <<>> => DOMAIN data["gateway"] = {gw_mac})
    /\ [][/\ (PollEnds("gateway") /\ outcome'["gateway"] = "ok") =>
                (gw_mac # None /\ DOMAIN data'["gateway"] = {gw_mac})
          /\ data["gateway"] # <<>> => DOMAIN data'["gateway"] = DOMAIN data["gateway"]
          /\ gw_mac # None => gw_mac' = gw_mac]_vars

\* the record published under the constructed mac is the one of another mac
C15_Witness ==
    /\ outcome["gateway"] = "ok" /\ fetching["gateway"] = 0
    /\ gw_mac = "g1"
    /\ data["gateway"]["g1"].mac = "g2"

(* ======================= claims: construction and scheduling ======================= *)
\* C16: the coordinators poll at their documented intervals: switch ports 300,
\* gateway 300, clients 300, devices 900; the interval never changes after
\* construction.
C16_DocumentedIntervals ==
    /\ [](/\ update_interval["c1"] = 300
          /\ update_interval["gateway"] = 300
          /\ update_interval["clients"] = 300
          /\ update_interval["devices"] = 900)
    /\ [][update_interval' = update_interval]_vars

\* C19: once a coordinator is torn down no fetch starts and the result of the
\* fetch in flight is dropped: snapshot and failure state stay as they were.
C19_TeardownFreezes ==
    [][\A c \in Coords :
        tornDown[c] =>
            /\ tornDown'[c]
            /\ data'[c] = data[c]
            /\ lastError'[c] = lastError[c]
            /\ fetching'[c] <= fetching[c]]_vars

\* torn down with a fetch in flight, whose result was dropped
C19_Witness ==
    /\ tornDown["c1"] /\ fetching["c1"] = 0
    /\ outcome["c1"] = "discarded"
    /\ data["c1"] # <<>>

\* C20: a coordinator with a poll interval fetches at once when its first
\* subscriber attaches and then once per interval; one built without an
\* interval never fetches on its own, only on an explicit refreshNow().
BuiltWithoutInterval(c) == PollDelayArg(Kind[c]) = NoDelay

C20_PollSchedule ==
    /\ [](\A c \in Coords :
            /\ sinceTick[c] <= update_interval[c]
            /\ BuiltWithoutInterval(c) => "timer" \notin waiting[c])
    /\ [][\A c \in Coords :
            /\ (~BuiltWithoutInterval(c) /\ subscribers[c] = 0 /\ subscribers'[c] > 0) =>
                    (fetching'[c] = 1 /\ "timer" \in waiting'[c] /\ sinceTick'[c] = 0)
            /\ ("timer" \notin waiting[c] /\ "timer" \in waiting'[c]) =>
                    \/ subscribers[c] = 0
                    \/ (sinceTick[c] = update_interval[c] /\ sinceTick'[c] = 0)
            /\ (subscribers[c] > 0 /\ sinceTick[c] > 0 /\ sinceTick'[c] = 0) =>
                    (sinceTick[c] = update_interval[c] /\ "timer" \in waiting'[c])
            /\ (BuiltWithoutInterval(c) /\ fetching[c] = 0 /\ fetching'[c] > 0) =>
                    waiting'[c] \subseteq {"u1", "u2"}]_vars

\* the second tick of the coordinator with an interval has started a fetch;
\* the one without has subscribers and was fetched on request only
C20_Witness ==
    /\ subscribers["c1"] > 0 /\ sinceTick["c1"] = 0
    /\ fetching["c1"] = 1 /\ "timer" \in waiting["c1"]
    /\ outcome["c1"] = "ok"
    /\ subscribers["manual"] > 0 /\ outcome["manual"] = "ok" /\ fetching["manual"] = 0

(* ======================= claims: options and independence ======================= *)
\* C17: the resolved options take the supplied value of every known field
\* present in the raw mapping, drop unknown keys without error, and take the
\* defaults (device_tracker false, interval 300, empty allow-lists) for the
\* fields that are missing.
C17_OptionsResolved ==
    options.state # "unset" =>
        /\ options.state = "resolved"
        /\ \A f \in FieldNames :
              options[f] = IF f \in rawOptions.present THEN rawOptions[f] ELSE FieldDefaults[f]
        /\ FieldDefaults = [device_tracker |-> FALSE, tracked_clients |-> <<>>,
                            scanned_clients |-> <<>>, tracker_poll_interval |-> 300]

\* C18: coordinators are independent: two of them may have a fetch in flight
\* at once, neither waits for the other, and a poll, failure or timeout of one
\* leaves snapshot and failure state of the other as they were.
CoordState(c) ==
    <<data[c], lastError[c], fetching[c], pending[c], elapsed[c], waiting[c], outcome[c]>>

C18_Independent ==
    /\ [](\A c \in {"c1", "c2"} :
            fetching[c] = 0 => ENABLED RefreshNow(c, "timer", SchedResponses))
    /\ [][\A c, d \in Coords :
            (c # d /\ CoordState(c)' # CoordState(c)) => CoordState(d)' = CoordState(d)]_vars

\* both in flight at once, after one timed out and the other succeeded
C18_Witness ==
    /\ fetching["c1"] = 1 /\ fetching["c2"] = 1
    /\ elapsed["c1"] # elapsed["c2"]
    /\ outcome["c1"] = "timeout" /\ outcome["c2"] = "ok"
    /\ data["c1"] # data["c2"]

(* ======================= claims: retry, frame, gateway lookup ======================= *)
\* C21: a failed poll is not retried early and does not stretch the schedule:
\* the failure ends the fetch and leaves timer and interval alone, a fetch
\* starts only at the first subscriber or when the interval is over, the tick
\* is due at the interval whatever the failure state, and with fetches that
\* eventually succeed a recorded failure is eventually cleared.
\* the fetch in flight is over: none is left, or its time starts anew
FetchEnds(c) == fetching[c] > 0 /\ (fetching'[c] = 0 \/ elapsed'[c] < elapsed[c])

C21_FailureWaitsForTick ==
    /\ [][(FetchEnds("c1") /\ lastError'["c1"] # None) =>
            /\ fetching'["c1"] = 0
            /\ sinceTick'["c1"] = sinceTick["c1"]
            /\ update_interval'["c1"] = update_interval["c1"]]_vars
    /\ [][(fetching["c1"] = 0 /\ fetching'["c1"] > 0) =>
            \/ subscribers["c1"] = 0 /\ subscribers'["c1"] = 1
            \/ sinceTick["c1"] = update_interval["c1"]]_vars
    /\ []((Scheduled("c1") /\ sinceTick["c1"] = update_interval["c1"]) =>
            ENABLED ScheduledTick("c1"))
    /\ []((Scheduled("c1")) => sinceTick["c1"] <= update_interval["c1"])
    /\ ((lastError["c1"] # None /\ subscribers["c1"] > 0) ~> (lastError["c1"] = None))

\* after a success and a later failure, the retry issued by a tick is in flight
C21_Witness ==
    /\ data["c1"] # <<>> /\ lastError["c1"] = "UpdateFailed"
    /\ fetching["c1"] = 1 /\ sinceTick["c1"] < FetchTimeout
    /\ subscribers["c1"] > 0

\* C22: the device registry changes only in the step that ends a devices poll
\* with success; the polls of the other coordinators, the controller's
\* operations and a devices poll that ends with a vendor error leave it as
\* it was.
C22_RegistryFrame ==
    /\ [][registry' # registry => DevicesPollOk]_vars
    /\ [][(PollEnds("devices") /\ outcome'["devices"] # "ok") =>
            (registry' = registry /\ lastError'["devices"] # None)]_vars

\* rows are registered, the other coordinators have published, the controller
\* has built its coordinators, and a devices poll has just failed
C22_Witness ==
    /\ registry # {} /\ outcome["devices"] = "vendor_error"
    /\ data["c1"] # <<>> /\ data["gateway"] # <<>> /\ data["clients"] # <<>>
    /\ DOMAIN switch_port_coordinators # {} /\ IsCoord(gateway_coordinator)
    /\ clientsRet # NotReturned

\* C23: a get_gateway_coordinator call that began while the site had a
\* gateway, and whose lookup was never answered with "no gateway" or an error,
\* returns the GatewayCoordinator and never None, also when it began while
\* another call was awaiting the device list.
C23_GatewayNeverNone ==
    \A t \in Tasks :
        (/\ gwpc[t] = "done" /\ gwret[t].kind \in {"None", "gateway"}
         /\ gwSaw[t] /\ answered \in {"no", "found"}) =>
            /\ IsCoord(gwret[t])
            /\ IsCoord(gateway_coordinator) => gwret[t] = gateway_coordinator

\* C24: after the device-list fetch of the first get_gateway_coordinator call
\* raised, the lookup is not marked as done and no later call returns None
\* without fetching the device list again.
C24_ErrorLeavesNoTrace ==
    answered = "error" =>
        /\ ~initialized_gateway_coordinator
        /\ \A t \in Tasks : (gwAt[t] = "error" /\ gwpc[t] = "done") => gwret[t] # NoCoord

(* ======================= claims: scene state switch ======================= *)
\* what the comparers are to decide: a value within the tolerance of the
\* scene's, a colour equal to the scene's
Within(c, s) == c.has /\ s.has /\ Abs(c.v - s.v) <= 3
ModeSet(st) == {st.supported_color_modes[i] : i \in DOMAIN st.supported_color_modes}
LightMatches(s, c) ==
    /\ c.exists /\ c.state = s.state
    /\ c.state # "off" =>
          /\ \A k \in ModeSet(c) \cap {"brightness", "color_temp"} : Within(c.num[k], s.num[k])
          /\ "rgb" \in ModeSet(c) => c.list["rgb_color"] = s.list["rgb_color"]
          /\ "rgbw" \in ModeSet(c) => c.list["rgbw_color"] = s.list["rgbw_color"]
          /\ "rgbww" \in ModeSet(c) => c.list["rgbww_color"] = s.list["rgbww_color"]
CoverMatches(s, c) ==
    /\ c.exists /\ c.state = s.state
    /\ c.state # "closed" =>
          /\ HasFeature(c.supported_features, 4) =>
                Within(c.num["current_position"], s.num["current_position"])
          /\ HasFeature(c.supported_features, 128) =>
                Within(c.num["current_tilt_position"], s.num["current_tilt_position"])
SimpleMatches(s, c) == c.exists /\ c.state = s.state
StateMatches(s) ==
    LET c == hass_states[s.entity_id]
    IN IF s.domain = "light" THEN LightMatches(s, c)
       ELSE IF s.domain = "cover" THEN CoverMatches(s, c)
       ELSE SimpleMatches(s, c)

\* C25: once update() has run, is_on is true exactly when every state stored
\* in the scene matches the current state of its entity under the comparer of
\* its domain (for a light that is not off the brightness and colour
\* temperature it supports within 3 and its colours equal, for a cover that is
\* not closed the positions it supports within 3, otherwise the same state).
C25_IsOnIffSceneMatches ==
    updated # "none" => (switch_state <=> \A i \in DOMAIN scene : StateMatches(scene[i]))

(* ======================= claims: gamma adjusted light ======================= *)
\* the colour mode the child's supported modes call for
DeterminedMode(modes) ==
    IF modes \cap {"hs", "rgb", "xy", "rgbw", "rgbww"} # {} THEN "xy"
    ELSE IF "color_temp" \in modes THEN "color_temp"
    ELSE "brightness"

\* C26: with the child's supported colour modes fixed, the wrapper's colour
\* mode after the first child event it handles is the one those modes
\* determine, its supported colour modes are that one mode, and every later
\* event leaves both unchanged.
C26_ColorModeStable ==
    /\ [](handled > 0 => attr_color_mode = DeterminedMode(child_modes))
    /\ [][handled > 0 =>
            /\ attr_color_mode' = attr_color_mode
            /\ attr_supported_modes' = attr_supported_modes]_vars

====
